---- MODULE Spec2Model ----
(***************************************************************************)
(* Model of the Erae API SysEx reference client                            *)
(* (docs/erae_api_reference/erae/erae_api_sysex.py and erae/utils.py).     *)
(*                                                                         *)
(* Python lists are sequences (index k of the code is k+1 here), an        *)
(* optional value is a sequence of length 0 (None) or 1, and a call that   *)
(* can raise returns a record whose exc field names the exception ("none"  *)
(* when it returns normally).                                              *)
(***************************************************************************)
EXTENDS Integers, Sequences, FiniteSets, TLC

VARIABLES
    family_member_code, \* self.family_member_code, fixed by __init__
    callback,           \* what midi_in.set_callback registered: None or CallbackDataMidi
    pc,                 \* "idle": no call in progress; "returned": a call just ended
    op,                 \* the call that just ended and its arguments
    payload,            \* message_bytes handed to create_sysex_message by that call, or None
    wire,               \* frames handed to midi_out.send_message by that call
    calls,              \* reply-handler methods invoked by that call, in order
    exc,                \* the exception that call raised, "none" if it returned
    warned,             \* checksum warnings printed by that call
    cdata,              \* codec run: the plain input
    cenc,               \* codec run: result of bitize7chksum(cdata), or None
    cdec                \* codec run: result of unbitize7chksum on it, or None

vars == <<family_member_code, callback, pc, op, payload, wire, calls, exc, warned,
          cdata, cenc, cdec>>

\* None is the empty sequence; an optional value x that is present is <<x>>
None == <<>>

(***************************************************************************)
(* Program constants                                                       *)
(***************************************************************************)
SYSEX_START == 240
SYSEX_END == 247
EMBODME_MANFACTURER_ID == <<0, 33, 80>>
ERAE_HARDWARE_FAMILY_CODE == <<0, 1>>
ERAE_TOUCH_FAMILY_MEMBER_CODE == <<0, 1>>
ERAE_2_FAMILY_MEMBER_CODE == <<0, 2>>
ERAE_MIDI_NETWORK_ID == <<1>>
ERAE_SERVICE == <<1>>
ERAE_API == <<4>>
API_VERSIONREQUEST_COMMAND == 127
API_MODE_ENABLE == 1
API_MODE_DISABLE == 2
ZONE_BOUNDARY_REQUEST_COMMAND == 16
CLEAR_ZONE_COMMAND == 32
DRAW_PIXEL_COMMAND == 33
DRAW_RECTANGLE_COMMAND == 34
DRAW_IMAGE_COMMAND == 35
NON_FINGER == 127
ZONE_BOUNDARY_REPLY == 1
API_VERSION_REPLY == 2

(***************************************************************************)
(* Python integer and list primitives                                      *)
(***************************************************************************)
Pow2(n) == 2 ^ n

\* a & b, a | b, a ^ b for ints a, b >= 0
RECURSIVE BitAnd(_, _)
BitAnd(a, b) ==
    IF a = 0 \/ b = 0 THEN 0
    ELSE (IF a % 2 = 1 /\ b % 2 = 1 THEN 1 ELSE 0) + 2 * BitAnd(a \div 2, b \div 2)

RECURSIVE BitOr(_, _)
BitOr(a, b) ==
    IF a = 0 THEN b
    ELSE IF b = 0 THEN a
    ELSE (IF a % 2 = 1 \/ b % 2 = 1 THEN 1 ELSE 0) + 2 * BitOr(a \div 2, b \div 2)

RECURSIVE BitXor(_, _)
BitXor(a, b) ==
    IF a = 0 THEN b
    ELSE IF b = 0 THEN a
    ELSE (IF a % 2 # b % 2 THEN 1 ELSE 0) + 2 * BitXor(a \div 2, b \div 2)

\* el & mask for any int el (two's complement of unbounded width) and 0 <= mask <= 255
MaskByte(el, mask) == BitAnd(el % 256, mask)

\* s[lo:hi] for 0 <= lo, 0 <= hi: out-of-range bounds are clipped, never an error
PySlice(s, lo, hi) ==
    LET h == IF hi > Len(s) THEN Len(s) ELSE hi
    IN  IF lo >= h THEN <<>> ELSE [k \in 1..(h - lo) |-> s[lo + k]]

\* s[i] for i >= 0: IndexError when i is past the end
PyIndex(s, i) ==
    IF i < Len(s) THEN [exc |-> "none", val |-> s[i + 1]]
    ELSE [exc |-> "IndexError", val |-> None]

\* reduce(lambda x, y: x ^ y, s): TypeError on an empty list
RECURSIVE XorFold(_)
XorFold(s) ==
    IF Len(s) = 1 THEN s[1] ELSE BitXor(XorFold(SubSeq(s, 1, Len(s) - 1)), s[Len(s)])

XorReduce(s) ==
    IF Len(s) = 0 THEN [exc |-> "TypeError", val |-> None]
    ELSE [exc |-> "none", val |-> XorFold(s)]

(***************************************************************************)
(* utils.py: the 7-bit codec                                               *)
(***************************************************************************)
bitized7size(length) ==
    (length \div 7) * 8 + (IF length % 7 > 0 THEN 1 + (length % 7) ELSE 0)

unbitized7size(length) ==
    (length \div 8) * 7 + (IF length % 8 > 0 THEN (length % 8) - 1 ELSE 0)

\* sum((el & 0x80) >> (j+1) for j, el in enumerate(grp)), summed over j = 0..n-1
RECURSIVE HeaderSum(_, _)
HeaderSum(grp, n) ==
    IF n = 0 THEN 0
    ELSE HeaderSum(grp, n - 1) + (MaskByte(grp[n], 128) \div Pow2(n))

\* the list comprehension of bitize7chksum: per group of up to 7, [header] + [el & 0x7F ...]
Bitized7Arr(data) ==
    [k \in 1..bitized7size(Len(data)) |->
        LET g == (k - 1) \div 8
            r == (k - 1) % 8
            grp == PySlice(data, 7 * g, 7 * g + 7)
        IN  IF r = 0 THEN HeaderSum(grp, Len(grp)) ELSE MaskByte(grp[r], 127)]

\* mutant: the data bytes are emitted without clearing bit 7
bitize7chksum_unmasked(data, append_checksum) ==
    LET arr == [k \in 1..bitized7size(Len(data)) |->
                  LET g == (k - 1) \div 8
                      r == (k - 1) % 8
                      grp == PySlice(data, 7 * g, 7 * g + 7)
                  IN  IF r = 0 THEN HeaderSum(grp, Len(grp)) ELSE grp[r] % 256]
    IN  IF append_checksum
        THEN IF XorReduce(arr).exc # "none"
             THEN [exc |-> XorReduce(arr).exc, val |-> None]
             ELSE [exc |-> "none", val |-> Append(arr, XorReduce(arr).val)]
        ELSE [exc |-> "none", val |-> arr]

bitize7chksum(data, append_checksum) ==
    LET bitized7Arr == Bitized7Arr(data)
    IN  IF append_checksum
        THEN IF XorReduce(bitized7Arr).exc # "none"
             THEN [exc |-> XorReduce(bitized7Arr).exc, val |-> None]
             ELSE [exc |-> "none",
                   val |-> Append(bitized7Arr, XorReduce(bitized7Arr).val)]
        ELSE [exc |-> "none", val |-> bitized7Arr]

\* the while/for loops of unbitize7chksum: original_data after them.  Output k
\* (0-based) is written from header bitized_data[i] and data byte
\* bitized_data[i + j + 1], i = 8 * (k div 7), j = k mod 7.
Unbitized7Arr(bitized_data) ==
    [k \in 1..unbitized7size(Len(bitized_data)) |->
        LET i == 8 * ((k - 1) \div 7)
            j == (k - 1) % 7
        IN  BitOr(BitAnd(bitized_data[i + 1] * Pow2(j + 1), 128),
                  bitized_data[i + j + 2])]

\* mutant: the header is shifted by j instead of j + 1
unbitize7chksum_shift(bitized_data, checksum) ==
    LET original_data ==
            [k \in 1..unbitized7size(Len(bitized_data)) |->
                LET i == 8 * ((k - 1) \div 7)
                    j == (k - 1) % 7
                IN  BitOr(BitAnd(bitized_data[i + 1] * Pow2(j), 128),
                          bitized_data[i + j + 2])]
    IN  IF checksum = None
        THEN [exc |-> "none", val |-> original_data, warn |-> <<>>]
        ELSE IF XorReduce(bitized_data).exc # "none"
        THEN [exc |-> XorReduce(bitized_data).exc, val |-> None, warn |-> <<>>]
        ELSE IF checksum[1] # XorReduce(bitized_data).val
        THEN [exc |-> "none", val |-> original_data,
              warn |-> <<<<checksum[1], XorReduce(bitized_data).val>>>>]
        ELSE [exc |-> "none", val |-> original_data, warn |-> <<>>]

\* mutant: a checksum mismatch raises instead of printing a warning
unbitize7chksum_strict(bitized_data, checksum) ==
    LET original_data == Unbitized7Arr(bitized_data)
    IN  IF checksum = None
        THEN [exc |-> "none", val |-> original_data, warn |-> <<>>]
        ELSE IF XorReduce(bitized_data).exc # "none"
        THEN [exc |-> XorReduce(bitized_data).exc, val |-> None, warn |-> <<>>]
        ELSE IF checksum[1] # XorReduce(bitized_data).val
        THEN [exc |-> "ValueError", val |-> None, warn |-> <<>>]
        ELSE [exc |-> "none", val |-> original_data, warn |-> <<>>]

\* warn: the "Warning: Checksum mismatch! {} {}" lines printed, as
\* <<checksum, calculated_checksum>> pairs
unbitize7chksum(bitized_data, checksum) ==
    LET original_data == Unbitized7Arr(bitized_data)
    IN  IF checksum = None
        THEN [exc |-> "none", val |-> original_data, warn |-> <<>>]
        ELSE IF XorReduce(bitized_data).exc # "none"
        THEN [exc |-> XorReduce(bitized_data).exc, val |-> None, warn |-> <<>>]
        ELSE IF checksum[1] # XorReduce(bitized_data).val
        THEN [exc |-> "none", val |-> original_data,
              warn |-> <<<<checksum[1], XorReduce(bitized_data).val>>>>]
        ELSE [exc |-> "none", val |-> original_data, warn |-> <<>>]

(***************************************************************************)
(* struct.unpack on bytearray(data)                                        *)
(***************************************************************************)
\* bytearray(data) raises ValueError unless every element is in range(256);
\* struct.unpack raises struct.error unless the buffer has exactly n bytes
UnpackExc(data, n) ==
    IF \E k \in 1..Len(data) : data[k] < 0 \/ data[k] > 255 THEN "ValueError"
    ELSE IF Len(data) # n THEN "struct.error"
    ELSE "none"

\* struct.unpack('<Q', b)[0]: the unsigned little-endian value of 8 bytes, held
\* as its four base-65536 digits, least significant first
UnpackQ(b) ==
    [k \in 1..4 |-> b[2 * k - 1] + 256 * b[2 * k]]

\* struct.unpack('<f', b)[0]: the IEEE-754 single whose bits are the 4 bytes
\* little-endian, held as its sign, biased exponent and fraction fields
UnpackF(b) ==
    [sign     |-> b[4] \div 128,
     exponent |-> 2 * (b[4] % 128) + (b[3] \div 128),
     fraction |-> 65536 * (b[3] % 128) + 256 * b[2] + b[1]]

(***************************************************************************)
(* EraeAPISysex.receive_midi_message                                       *)
(***************************************************************************)
Call(handler, method, args) == [handler |-> handler, method |-> method, args |-> args]

Outcome(c, e, w) == [calls |-> c, exc |-> e, warn |-> w]

\* mutant: the prefix is not compared, only its length
PrefixMatches_lengthOnly(sysex_message, receiver_prefix) ==
    Len(sysex_message) > Len(receiver_prefix)

\* len(sysex_message) > len(receiver_prefix) and
\* sysex_message[0: len(receiver_prefix)] == receiver_prefix
PrefixMatches(sysex_message, receiver_prefix) ==
    /\ Len(sysex_message) > Len(receiver_prefix)
    /\ PySlice(sysex_message, 0, Len(receiver_prefix)) = receiver_prefix

\* the second, independent conditional of the non-finger branch; offset is
\* where the first conditional left it and done holds the calls made so far
ApiVersionBranch(sysex_message, offset, handler, done) ==
    IF PyIndex(sysex_message, offset).exc # "none"
    THEN Outcome(done, "IndexError", <<>>)
    ELSE IF PyIndex(sysex_message, offset).val # API_VERSION_REPLY
    THEN Outcome(done, "none", <<>>)
    ELSE IF PyIndex(sysex_message, offset + 1).exc # "none"
    THEN Outcome(done, "IndexError", <<>>)
    ELSE Outcome(Append(done, Call(handler, "api_version",
                                   <<PyIndex(sysex_message, offset + 1).val>>)),
                 "none", <<>>)

\* the non-finger branch; offset already points past the NON_FINGER tag
NonFingerBranch(sysex_message, offset, handler) ==
    IF PyIndex(sysex_message, offset).exc # "none"
    THEN Outcome(<<>>, "IndexError", <<>>)
    ELSE IF PyIndex(sysex_message, offset).val = ZONE_BOUNDARY_REPLY
    THEN LET zone_id == PyIndex(sysex_message, offset + 1)
             width   == PyIndex(sysex_message, offset + 2)
             height  == PyIndex(sysex_message, offset + 3)
         IN  IF zone_id.exc # "none" \/ width.exc # "none" \/ height.exc # "none"
             THEN Outcome(<<>>, "IndexError", <<>>)
             ELSE ApiVersionBranch(sysex_message, offset + 3, handler,
                      <<Call(handler, "zone_boundary_reply",
                             <<zone_id.val, width.val, height.val>>)>>)
    ELSE ApiVersionBranch(sysex_message, offset, handler, <<>>)

\* mutant: a message that ends before the checksum byte is decoded without one
ReadChecksum_optional(sysex_message, offset) ==
    IF offset < Len(sysex_message)
    THEN [exc |-> "none", val |-> <<sysex_message[offset + 1]>>]
    ELSE [exc |-> "none", val |-> None]

\* xyz_data_checksum = sysex_message[offset]; val is the optional checksum
\* handed on to unbitize7chksum
ReadChecksum(sysex_message, offset) ==
    IF PyIndex(sysex_message, offset).exc # "none"
    THEN [exc |-> "IndexError", val |-> None]
    ELSE [exc |-> "none", val |-> <<PyIndex(sysex_message, offset).val>>]

\* the finger-stream branch; offset points at the action/finger tag byte
FingerStreamBranch(sysex_message, offset, handler) ==
    LET action_finger_byte == PyIndex(sysex_message, offset)
        zone_id == PyIndex(sysex_message, offset + 1)
        finger_id_data_length == bitized7size(8)
        finger_id_data == PySlice(sysex_message, offset + 2,
                                  offset + 2 + finger_id_data_length)
        xyz_data_length == bitized7size(3 * 4)
        xyz_offset == offset + 2 + finger_id_data_length
        xyz_data == PySlice(sysex_message, xyz_offset, xyz_offset + xyz_data_length)
        xyz_data_checksum == ReadChecksum(sysex_message, xyz_offset + xyz_data_length)
        finger_id_unbitized == unbitize7chksum(finger_id_data, None)
        xyz_data_unbitized == unbitize7chksum(xyz_data, xyz_data_checksum.val)
        warn == finger_id_unbitized.warn \o xyz_data_unbitized.warn
    IN  IF action_finger_byte.exc # "none" THEN Outcome(<<>>, "IndexError", <<>>)
        ELSE IF zone_id.exc # "none" THEN Outcome(<<>>, "IndexError", <<>>)
        ELSE IF xyz_data_checksum.exc # "none" THEN Outcome(<<>>, "IndexError", <<>>)
        ELSE IF finger_id_unbitized.exc # "none"
        THEN Outcome(<<>>, finger_id_unbitized.exc, <<>>)
        ELSE IF UnpackExc(finger_id_unbitized.val, 8) # "none"
        THEN Outcome(<<>>, UnpackExc(finger_id_unbitized.val, 8), <<>>)
        ELSE IF xyz_data_unbitized.exc # "none"
        THEN Outcome(<<>>, xyz_data_unbitized.exc, finger_id_unbitized.warn)
        ELSE IF \E g \in 0..2 :
                  UnpackExc(PySlice(xyz_data_unbitized.val, 4 * g, 4 * g + 4), 4) # "none"
        THEN Outcome(<<>>,
                     LET g == CHOOSE g \in 0..2 :
                                /\ UnpackExc(PySlice(xyz_data_unbitized.val,
                                                     4 * g, 4 * g + 4), 4) # "none"
                                /\ \A f \in 0..(g - 1) :
                                     UnpackExc(PySlice(xyz_data_unbitized.val,
                                                       4 * f, 4 * f + 4), 4) = "none"
                     IN  UnpackExc(PySlice(xyz_data_unbitized.val, 4 * g, 4 * g + 4), 4),
                     warn)
        ELSE Outcome(<<Call(handler, "finger_detection",
                            <<UnpackQ(finger_id_unbitized.val),
                              zone_id.val,
                              BitAnd(action_finger_byte.val, 7),
                              UnpackF(PySlice(xyz_data_unbitized.val, 0, 4)),
                              UnpackF(PySlice(xyz_data_unbitized.val, 4, 8)),
                              UnpackF(PySlice(xyz_data_unbitized.val, 8, 12))>>)>>,
                     "none", warn)

\* the callback: msg is the byte list of the (msg, timestamp) pair
receive_midi_message(msg, callback_data) ==
    LET receiver_prefix == callback_data.receiver_prefix
        erae_handler == callback_data.erae_reply_handler
    IN  IF PyIndex(msg, 0).exc # "none" THEN Outcome(<<>>, "IndexError", <<>>)
        ELSE IF ~(msg[1] = SYSEX_START /\ msg[Len(msg)] = SYSEX_END)
        THEN Outcome(<<>>, "none", <<>>)
        ELSE LET sysex_message == PySlice(msg, 1, Len(msg) - 1)
                 offset == Len(receiver_prefix)
             IN  IF ~PrefixMatches(sysex_message, receiver_prefix)
                 THEN Outcome(<<>>, "none", <<>>)
                 ELSE IF sysex_message[offset + 1] = NON_FINGER
                 THEN NonFingerBranch(sysex_message, offset + 1, erae_handler)
                 ELSE FingerStreamBranch(sysex_message, offset, erae_handler)

(***************************************************************************)
(* Outbound: create_sysex_message, send_sysex_message and the assemblers   *)
(***************************************************************************)
\* mutant: only the upper limit is checked
create_sysex_message_upperOnly(message_bytes) ==
    IF \E k \in 1..Len(message_bytes) : message_bytes[k] > 127
    THEN [exc |-> "Exception", val |-> None]
    ELSE [exc |-> "none", val |-> <<SYSEX_START>> \o message_bytes \o <<SYSEX_END>>]

\* raises Exception("Sysex msg contains values outside [0x00; 0x7F]: ...")
create_sysex_message(message_bytes) ==
    IF \E k \in 1..Len(message_bytes) : message_bytes[k] < 0 \/ message_bytes[k] > 127
    THEN [exc |-> "Exception", val |-> None]
    ELSE [exc |-> "none", val |-> <<SYSEX_START>> \o message_bytes \o <<SYSEX_END>>]

\* what a call of send_sysex_message leaves behind: the payload it was given,
\* the frames handed to midi_out.send_message, and the exception raised
send_sysex_message(message_bytes) ==
    LET sysex_message == create_sysex_message(message_bytes)
    IN  IF sysex_message.exc # "none"
        THEN [payload |-> <<message_bytes>>, wire |-> <<>>, exc |-> sysex_message.exc]
        ELSE [payload |-> <<message_bytes>>, wire |-> <<sysex_message.val>>,
              exc |-> "none"]

\* EMBODME_MANFACTURER_ID + ERAE_HARDWARE_FAMILY_CODE + self.family_member_code +
\* ERAE_MIDI_NETWORK_ID + ERAE_SERVICE + ERAE_API
DeviceAddress ==
    EMBODME_MANFACTURER_ID \o ERAE_HARDWARE_FAMILY_CODE \o family_member_code
        \o ERAE_MIDI_NETWORK_ID \o ERAE_SERVICE \o ERAE_API

CallbackDataMidi(receiver_prefix, erae_reply_handler) ==
    [receiver_prefix |-> receiver_prefix, erae_reply_handler |-> erae_reply_handler]

\* an outbound call ends: sent is the record send_sysex_message left
Sent(name, args, sent) ==
    /\ pc' = "returned"
    /\ op' = [name |-> name, args |-> args]
    /\ payload' = sent.payload
    /\ wire' = sent.wire
    /\ exc' = sent.exc
    /\ calls' = <<>>
    /\ warned' = <<>>
    /\ UNCHANGED <<family_member_code, cdata, cenc, cdec>>

enable_api_mode(receiver_prefix, erae_handler) ==
    /\ pc = "idle"
    /\ callback' = <<CallbackDataMidi(receiver_prefix, erae_handler)>>
    /\ Sent("enable_api_mode", <<receiver_prefix, erae_handler>>,
            send_sysex_message(DeviceAddress \o <<API_MODE_ENABLE>> \o receiver_prefix))

disable_api_mode ==
    /\ pc = "idle"
    /\ UNCHANGED callback
    /\ Sent("disable_api_mode", <<>>,
            send_sysex_message(DeviceAddress \o <<API_MODE_DISABLE>>))

send_api_version_request(receiver_prefix, erae_handler) ==
    /\ pc = "idle"
    /\ callback' = <<CallbackDataMidi(receiver_prefix, erae_handler)>>
    /\ Sent("send_api_version_request", <<receiver_prefix, erae_handler>>,
            send_sysex_message(DeviceAddress \o <<API_VERSIONREQUEST_COMMAND>>
                                   \o receiver_prefix))

send_zone_boundary_request(zone_id) ==
    /\ pc = "idle"
    /\ UNCHANGED callback
    /\ Sent("send_zone_boundary_request", <<zone_id>>,
            send_sysex_message(DeviceAddress \o <<ZONE_BOUNDARY_REQUEST_COMMAND>>
                                   \o <<zone_id>>))

send_clear_zone_display(zone_id) ==
    /\ pc = "idle"
    /\ UNCHANGED callback
    /\ Sent("send_clear_zone_display", <<zone_id>>,
            send_sysex_message(DeviceAddress \o <<CLEAR_ZONE_COMMAND>> \o <<zone_id>>))

send_draw_pixel(zone_id, xpos, ypos, red, green, blue) ==
    /\ pc = "idle"
    /\ UNCHANGED callback
    /\ Sent("send_draw_pixel", <<zone_id, xpos, ypos, red, green, blue>>,
            send_sysex_message(DeviceAddress \o <<DRAW_PIXEL_COMMAND>>
                                   \o <<zone_id, xpos, ypos>> \o <<red, green, blue>>))

send_draw_rectangle(zone_id, xpos, ypos, width, height, red, green, blue) ==
    /\ pc = "idle"
    /\ UNCHANGED callback
    /\ Sent("send_draw_rectangle",
            <<zone_id, xpos, ypos, width, height, red, green, blue>>,
            send_sysex_message(DeviceAddress \o <<DRAW_RECTANGLE_COMMAND>>
                                   \o <<zone_id, xpos, ypos, width, height>>
                                   \o <<red, green, blue>>))

\* bitize7chksum raises before the message is assembled when rgb_data is empty
send_draw_image(zone_id, xpos, ypos, width, height, rgb_data) ==
    /\ pc = "idle"
    /\ UNCHANGED callback
    /\ LET data_bitized_checksum == bitize7chksum(rgb_data, TRUE)
       IN  Sent("send_draw_image", <<zone_id, xpos, ypos, width, height, rgb_data>>,
                IF data_bitized_checksum.exc # "none"
                THEN [payload |-> None, wire |-> <<>>,
                      exc |-> data_bitized_checksum.exc]
                ELSE send_sysex_message(DeviceAddress \o <<DRAW_IMAGE_COMMAND>>
                                            \o <<zone_id, xpos, ypos, width, height>>
                                            \o data_bitized_checksum.val))

(***************************************************************************)
(* Inbound: the transport invokes the registered callback                  *)
(***************************************************************************)
\* mutant: a callback that raised is dropped by the transport
InvokeCallback_dropsOnError(name, args, msg) ==
    /\ pc = "idle"
    /\ callback # None
    /\ LET r == receive_midi_message(msg, callback[1])
       IN  /\ calls' = r.calls
           /\ exc' = r.exc
           /\ warned' = r.warn
           /\ callback' = IF r.exc # "none" THEN None ELSE callback
    /\ pc' = "returned"
    /\ op' = [name |-> name, args |-> <<msg>> \o args]
    /\ UNCHANGED <<family_member_code, payload, wire, cdata, cenc, cdec>>

\* midi_in calls receive_midi_message((msg, timestamp), callback_data) with the
\* data object given to set_callback; nothing of the object is assigned
InvokeCallback(name, args, msg) ==
    /\ pc = "idle"
    /\ callback # None
    /\ LET r == receive_midi_message(msg, callback[1])
       IN  /\ calls' = r.calls
           /\ exc' = r.exc
           /\ warned' = r.warn
    /\ pc' = "returned"
    /\ op' = [name |-> name, args |-> <<msg>> \o args]
    /\ UNCHANGED <<callback, family_member_code, payload, wire, cdata, cenc, cdec>>

\* the call returns to its caller; its locals, result and exception are gone
Return ==
    /\ pc = "returned"
    /\ pc' = "idle"
    /\ op' = [name |-> "none", args |-> <<>>]
    /\ payload' = None
    /\ wire' = <<>>
    /\ calls' = <<>>
    /\ exc' = "none"
    /\ warned' = <<>>
    /\ UNCHANGED <<callback, family_member_code, cdata, cenc, cdec>>

(***************************************************************************)
(* Inputs                                                                  *)
(***************************************************************************)
MaxShapeLen == 4
MaxBodyLen == 6
MaxRgbLen == 8
MaxDataLen == 8

SeqsUpTo(S, n) == UNION {[1..m -> S] : m \in 0..n}

OneHot(n, k, v, bg) == [i \in 1..n |-> IF i = k THEN v ELSE bg]

Prefixes == {<<1, 2, 3>>, <<9, 10>>, <<1, 128>>}
Handlers == {"EraeReplyPrint", "custom"}

\* raw inbound lists of any shape, the empty list included
ShapeMsgs == SeqsUpTo({SYSEX_START, SYSEX_END, 1}, MaxShapeLen)

\* what follows the address in a framed inbound message
ControlBodies == SeqsUpTo({ZONE_BOUNDARY_REPLY, API_VERSION_REPLY, NON_FINGER}, MaxBodyLen)
OtherAddrs == {<<1, 2>>, <<9, 10>>, <<1, 2, 3>>}

Tags == {16, 1, 250}
Zones == {2, 255}
IdSamples ==
    {OneHot(8, k, 129, 0) : k \in 1..8} \cup {[i \in 1..8 |-> 255], OneHot(8, 1, 1, 0)}
\* 1.5, -2.0, 0.0 as three little-endian singles
XyzExample == <<0, 0, 192, 63, 0, 0, 0, 192, 0, 0, 0, 0>>
XyzSamples ==
    {OneHot(12, k, 129, 0) : k \in 1..12}
        \cup {[i \in 1..12 |-> 255], XyzExample}
ChecksumFlips == {1, 64, 127, 128}

ArgInts == {-1, 127, 128}
RectInts == {5, 128}
ImageGeoms == {<<1, 127, 0, 24, 24>>, <<0, 0, 0, 128, 24>>}
RgbData == SeqsUpTo({1, 255}, MaxRgbLen) \cup {<<v>> : v \in {-1, 0, 127, 128, 256}}

CodecInputs ==
    SeqsUpTo({0, 128, 255}, MaxDataLen)
        \cup {OneHot(n, k, v, 85) : n \in 1..MaxDataLen, k \in 1..MaxDataLen, v \in 0..255}

\* a finger-stream payload as the device builds it: tag, zone, the bitized
\* finger id (no checksum) and the bitized xyz block with its checksum
FingerBody(t, zone, id_bytes, xyz_bytes) ==
    <<t, zone>> \o bitize7chksum(id_bytes, FALSE).val \o bitize7chksum(xyz_bytes, TRUE).val

Framed(sysex_message) == <<SYSEX_START>> \o sysex_message \o <<SYSEX_END>>

FingerLen == 2 + bitized7size(8) + bitized7size(12) + 1

(***************************************************************************)
(* Inbound traffic                                                         *)
(***************************************************************************)
MidiInRaw(msg) == InvokeCallback("raw", <<>>, msg)

MidiInFramed(addr, body) == InvokeCallback("framed", <<addr, body>>, Framed(addr \o body))

MidiInFinger(t, zone, id_bytes, xyz_bytes) ==
    /\ callback # None
    /\ InvokeCallback("finger", <<t, zone, id_bytes, xyz_bytes>>,
           Framed(callback[1].receiver_prefix \o FingerBody(t, zone, id_bytes, xyz_bytes)))

MidiInFingerTruncated(t, zone, id_bytes, xyz_bytes, keep) ==
    /\ callback # None
    /\ InvokeCallback("finger_truncated", <<t, zone, id_bytes, xyz_bytes, keep>>,
           Framed(callback[1].receiver_prefix
                      \o SubSeq(FingerBody(t, zone, id_bytes, xyz_bytes), 1, keep)))

MidiInFingerBadChecksum(t, zone, id_bytes, xyz_bytes, flip) ==
    /\ callback # None
    /\ LET body == FingerBody(t, zone, id_bytes, xyz_bytes)
       IN  InvokeCallback("finger_badsum", <<t, zone, id_bytes, xyz_bytes, flip>>,
               Framed(callback[1].receiver_prefix
                          \o SubSeq(body, 1, Len(body) - 1)
                          \o <<BitXor(body[Len(body)], flip)>>))

(***************************************************************************)
(* The client                                                              *)
(***************************************************************************)
Init ==
    /\ family_member_code \in {ERAE_TOUCH_FAMILY_MEMBER_CODE, ERAE_2_FAMILY_MEMBER_CODE}
    /\ callback = None
    /\ pc = "idle"
    /\ op = [name |-> "none", args |-> <<>>]
    /\ payload = None
    /\ wire = <<>>
    /\ calls = <<>>
    /\ exc = "none"
    /\ warned = <<>>
    /\ cdata = <<>>
    /\ cenc = None
    /\ cdec = None

\* a call starts only when none is in progress (one callback or API call at a time)
Next ==
    \/ pc = "idle" /\ \E p \in Prefixes, h \in Handlers : enable_api_mode(p, h)
    \/ pc = "idle" /\ disable_api_mode
    \/ pc = "idle" /\ \E p \in Prefixes, h \in Handlers : send_api_version_request(p, h)
    \/ pc = "idle" /\ \E z \in ArgInts : send_zone_boundary_request(z)
    \/ pc = "idle" /\ \E z \in ArgInts : send_clear_zone_display(z)
    \/ pc = "idle" /\ \E a \in [1..6 -> ArgInts] :
          send_draw_pixel(a[1], a[2], a[3], a[4], a[5], a[6])
    \/ pc = "idle" /\ \E a \in [1..8 -> RectInts] :
          send_draw_rectangle(a[1], a[2], a[3], a[4], a[5], a[6], a[7], a[8])
    \/ pc = "idle" /\ \E g \in ImageGeoms, d \in RgbData :
          send_draw_image(g[1], g[2], g[3], g[4], g[5], d)
    \/ pc = "idle" /\ \E m \in ShapeMsgs : MidiInRaw(m)
    \/ pc = "idle" /\ \E a \in OtherAddrs, b \in ControlBodies : MidiInFramed(a, b)
    \/ pc = "idle" /\ \E t \in Tags, z \in Zones, i \in IdSamples, x \in XyzSamples :
          MidiInFinger(t, z, i, x)
    \/ pc = "idle" /\ \E t \in {16, NON_FINGER}, k \in 0..(FingerLen - 1) :
          MidiInFingerTruncated(t, 2, OneHot(8, 1, 255, 0), XyzExample, k)
    \/ pc = "idle" /\ \E t \in Tags, i \in {OneHot(8, 1, 1, 0), [j \in 1..8 |-> 255]},
          x \in {XyzExample, [j \in 1..12 |-> 255]}, f \in ChecksumFlips :
          MidiInFingerBadChecksum(t, 2, i, x, f)
    \/ Return

Spec == Init /\ [][Next]_vars

(***************************************************************************)
(* The codec on its own: bitize7chksum, then unbitize7chksum on its output *)
(***************************************************************************)
InitCodec ==
    /\ family_member_code = ERAE_2_FAMILY_MEMBER_CODE
    /\ callback = None
    /\ pc = "idle"
    /\ op = [name |-> "none", args |-> <<>>]
    /\ payload = None
    /\ wire = <<>>
    /\ calls = <<>>
    /\ exc = "none"
    /\ warned = <<>>
    /\ cdata \in CodecInputs
    /\ cenc = None
    /\ cdec = None

Encode ==
    /\ cenc = None
    /\ cenc' = <<bitize7chksum(cdata, TRUE)>>
    /\ UNCHANGED <<family_member_code, callback, pc, op, payload, wire, calls, exc,
                   warned, cdata, cdec>>

\* the trailing checksum byte is split off and handed over separately
Decode ==
    /\ cenc # None
    /\ cenc[1].exc = "none"
    /\ cdec = None
    /\ LET out == cenc[1].val
       IN  cdec' = <<unbitize7chksum(SubSeq(out, 1, Len(out) - 1), <<out[Len(out)]>>)>>
    /\ UNCHANGED <<family_member_code, callback, pc, op, payload, wire, calls, exc,
                   warned, cdata, cenc>>

NextCodec == Encode \/ Decode

SpecCodec == InitCodec /\ [][NextCodec]_vars

(***************************************************************************)
(* Vocabulary of the properties                                            *)
(***************************************************************************)
InboundNames == {"raw", "framed", "finger", "finger_truncated", "finger_badsum"}

\* a callback invocation has just ended
AfterInbound == pc = "returned" /\ op.name \in InboundNames

\* the raw list it was given, and the data object registered for it
InMsg == op.args[1]
Registered == callback[1]

InRange7(b) == b >= 0 /\ b <= 127

IsFramed(msg) == Len(msg) >= 2 /\ msg[1] = SYSEX_START /\ msg[Len(msg)] = SYSEX_END

Interior(msg) == SubSeq(msg, 2, Len(msg) - 1)

\* framed, strictly longer than the prefix and starting with it
Addressed(msg, prefix) ==
    /\ IsFramed(msg)
    /\ Len(Interior(msg)) > Len(prefix)
    /\ SubSeq(Interior(msg), 1, Len(prefix)) = prefix

\* what follows the prefix
AfterPrefix(msg, prefix) == SubSeq(Interior(msg), Len(prefix) + 1, Len(Interior(msg)))

IsZoneReply(rest) == Len(rest) = 5 /\ rest[1] = 127 /\ rest[2] = 1
IsVersionReply(rest) == Len(rest) = 3 /\ rest[1] = 127 /\ rest[2] = 2
IsFingerMessage(rest) == Len(rest) = 27 /\ rest[1] # 127

\* too short for the field the tag declares
IsTruncated(rest) ==
    IF rest[1] = 127
    THEN \/ Len(rest) < 2
         \/ Len(rest) >= 2 /\ rest[2] = 1 /\ Len(rest) < 5
         \/ Len(rest) >= 2 /\ rest[2] = 2 /\ Len(rest) < 3
    ELSE Len(rest) < 27

\* the finger_detection call a finger event with these plain fields must produce
ExpectedFinger(handler, t, zone, id_bytes, xyz_bytes) ==
    [handler |-> handler,
     method  |-> "finger_detection",
     args    |-> <<UnpackQ(id_bytes), zone, t % 8,
                   UnpackF(SubSeq(xyz_bytes, 1, 4)),
                   UnpackF(SubSeq(xyz_bytes, 5, 8)),
                   UnpackF(SubSeq(xyz_bytes, 9, 12))>>]

(***************************************************************************)
(* C1: every inbound message invokes at most one reply-handler method, a   *)
(* well-formed zone-boundary reply, version reply or finger message        *)
(* addressed to the prefix invokes exactly one, and a zone-boundary reply  *)
(* [prefix, 0x7F, 0x01, zone_id, width, height] invokes zone_boundary_reply*)
(* with those values, nothing else, and raises nothing.                    *)
(***************************************************************************)
C1_ExactlyOneHandler ==
    AfterInbound =>
        /\ Len(calls) <= 1
        /\ Addressed(InMsg, Registered.receiver_prefix) =>
              LET rest == AfterPrefix(InMsg, Registered.receiver_prefix)
              IN  /\ (IsZoneReply(rest) \/ IsVersionReply(rest) \/ IsFingerMessage(rest))
                        => Len(calls) = 1
                  /\ IsZoneReply(rest) =>
                        /\ calls = <<[handler |-> Registered.erae_reply_handler,
                                      method  |-> "zone_boundary_reply",
                                      args    |-> <<rest[3], rest[4], rest[5]>>]>>
                        /\ exc = "none"

(***************************************************************************)
(* C2: bitize7chksum(data, append_checksum=True) followed by               *)
(* unbitize7chksum on its output, the trailing checksum split off, returns *)
(* data, and neither call raises; the empty data included.                 *)
(***************************************************************************)
C2_RoundTrip ==
    /\ cenc # None => cenc[1].exc = "none"
    /\ cdec # None => cdec[1].exc = "none" /\ cdec[1].val = cdata

\* the same round trip, for data that is not empty
RoundTripNonEmpty ==
    cdata # <<>> =>
        /\ cenc # None => cenc[1].exc = "none"
        /\ cdec # None => cdec[1].exc = "none" /\ cdec[1].val = cdata /\ cdec[1].warn = <<>>

(***************************************************************************)
(* C3: an inbound payload that passes the prefix check and is too short    *)
(* for the field its tag declares ends the callback in the out-of-range    *)
(* error (IndexError), and no reply-handler method is invoked.             *)
(***************************************************************************)
C3_Truncation ==
    (/\ AfterInbound
     /\ Addressed(InMsg, Registered.receiver_prefix)
     /\ IsTruncated(AfterPrefix(InMsg, Registered.receiver_prefix)))
        => exc = "IndexError" /\ calls = <<>>

\* a finger-stream message that lacks only its final checksum byte
C3_Witness ==
    /\ AfterInbound
    /\ op.name = "finger_truncated"
    /\ op.args[2] = 16
    /\ op.args[6] = FingerLen - 1
    /\ exc = "IndexError"
    /\ calls = <<>>

(***************************************************************************)
(* C4: every frame handed to the transport is 0xF0, bytes in 0..0x7F, 0xF7 *)
(* around the assembled payload; a payload with a byte outside 0..0x7F     *)
(* fails with the value-out-of-range exception and nothing is sent.        *)
(***************************************************************************)
C4_WireFormat ==
    /\ \A i \in 1..Len(wire) :
          /\ IsFramed(wire[i])
          /\ \A k \in 2..(Len(wire[i]) - 1) : InRange7(wire[i][k])
          /\ payload # None
          /\ Interior(wire[i]) = payload[1]
    /\ Len(wire) <= 1
    /\ (payload # None /\ \E k \in 1..Len(payload[1]) : ~InRange7(payload[1][k]))
          => exc = "Exception" /\ wire = <<>>

\* a draw-pixel call with a negative zone id
C4_Witness ==
    /\ pc = "returned"
    /\ op.name = "send_draw_pixel"
    /\ op.args = <<-1, 127, 127, 127, 127, 127>>
    /\ exc = "Exception"
    /\ wire = <<>>

(***************************************************************************)
(* C5: a framed inbound message invokes a reply-handler method only if its *)
(* payload is strictly longer than the registered prefix and starts with   *)
(* it; every other framed message is dropped: no call, no error.           *)
(***************************************************************************)
C5_PrefixFiltering ==
    (AfterInbound /\ IsFramed(InMsg)) =>
        /\ calls # <<>> => Addressed(InMsg, Registered.receiver_prefix)
        /\ ~Addressed(InMsg, Registered.receiver_prefix)
              => calls = <<>> /\ exc = "none" /\ warned = <<>>

\* a complete zone-boundary reply addressed to [9, 10], received under prefix [1, 2, 3]
C5_Witness ==
    /\ AfterInbound
    /\ op.name = "framed"
    /\ Registered.receiver_prefix = <<1, 2, 3>>
    /\ op.args[2] = <<9, 10>>
    /\ op.args[3] = <<127, 1, 1, 1, 1>>
    /\ calls = <<>>
    /\ exc = "none"

(***************************************************************************)
(* C6: a raw inbound list of any length, the empty list included, is       *)
(* parsed only if it has at least 2 bytes, starts with 0xF0 and ends with  *)
(* 0xF7; any other shape returns silently: no error, no handler call.      *)
(***************************************************************************)
C6_FrameValidation ==
    (AfterInbound /\ ~IsFramed(InMsg)) => calls = <<>> /\ exc = "none"

(***************************************************************************)
(* C7: a finger event built from tag t # 0x7F, a zone byte, 8 id bytes and *)
(* 12 xyz bytes (prefix, t, zone, bitized id, bitized xyz with checksum)   *)
(* causes exactly one finger_detection call, with the little-endian 64-bit *)
(* id, the zone, t & 7 and the three little-endian singles of xyz.         *)
(***************************************************************************)
C7_FingerDecode ==
    (pc = "returned" /\ op.name = "finger") =>
        /\ calls = <<ExpectedFinger(Registered.erae_reply_handler,
                                    op.args[2], op.args[3], op.args[4], op.args[5])>>
        /\ exc = "none"
        /\ warned = <<>>

\* finger_id = 1, zone = 2, slide, x = 1.5, y = -2.0, z = 0.0
C7_Witness ==
    /\ pc = "returned"
    /\ op.name = "finger"
    /\ op.args[2] = 1
    /\ op.args[4] = OneHot(8, 1, 1, 0)
    /\ op.args[5] = XyzExample
    /\ Len(calls) = 1
    /\ calls[1].method = "finger_detection"
    /\ calls[1].args = <<<<1, 0, 0, 0>>, 2, 1,
                         [sign |-> 0, exponent |-> 127, fraction |-> 4194304],
                         [sign |-> 1, exponent |-> 128, fraction |-> 0],
                         [sign |-> 0, exponent |-> 0, fraction |-> 0]>>

(***************************************************************************)
(* C8: for non-empty rgb data with bytes in 0..255 every byte              *)
(* bitize7chksum adds to the draw-image payload (headers, data bytes,      *)
(* checksum) is in 0..127, and with zone, x, y, width and height in 0..127 *)
(* the message passes the range validation and is sent.                    *)
(***************************************************************************)
C8_ImageSent ==
    (/\ pc = "returned"
     /\ op.name = "send_draw_image"
     /\ op.args[6] # <<>>
     /\ \A k \in 1..Len(op.args[6]) : op.args[6][k] >= 0 /\ op.args[6][k] <= 255)
        => /\ payload # None
           /\ Len(payload[1]) = 16 + bitized7size(Len(op.args[6])) + 1
           /\ \A k \in 17..Len(payload[1]) : InRange7(payload[1][k])
           /\ (\A k \in 1..5 : InRange7(op.args[k]))
                 => exc = "none" /\ wire = <<Framed(payload[1])>>

\* eight bytes of 255: a full group and a partial one
C8_Witness ==
    /\ pc = "returned"
    /\ op.name = "send_draw_image"
    /\ op.args[6] = [k \in 1..8 |-> 255]
    /\ op.args[4] = 24
    /\ exc = "none"
    /\ Len(wire) = 1

(***************************************************************************)
(* C9: a complete finger-stream message whose checksum byte differs from   *)
(* the XOR of the 14 bitized xyz bytes prints one warning and still causes *)
(* exactly one finger_detection call, with the values a correct checksum   *)
(* would deliver.                                                          *)
(***************************************************************************)
C9_ChecksumNonFatal ==
    (pc = "returned" /\ op.name = "finger_badsum") =>
        /\ calls = <<ExpectedFinger(Registered.erae_reply_handler,
                                    op.args[2], op.args[3], op.args[4], op.args[5])>>
        /\ exc = "none"
        /\ Len(warned) = 1
        /\ warned[1][1] # warned[1][2]
        /\ warned[1][1] = InMsg[Len(InMsg) - 1]

C9_Witness ==
    /\ pc = "returned"
    /\ op.name = "finger_badsum"
    /\ op.args[5] = XyzExample
    /\ op.args[6] = 1
    /\ warned = <<<<110, 111>>>>
    /\ Len(calls) = 1
    /\ calls[1].method = "finger_detection"

C11_FailedBuildKeepsRegistration ==
    [][(/\ pc = "idle"
        /\ callback # None
        /\ pc' = "returned"
        /\ op'.name \in {"enable_api_mode", "send_api_version_request"}
        /\ \E k \in 1..Len(op'.args[1]) : ~InRange7(op'.args[1][k]))
           => /\ exc' = "Exception"
              /\ wire' = <<>>
              /\ callback' = callback]_vars

====
